---- MODULE Spec2Model ----
(***************************************************************************)
(* Model of curvefit/forecaster.py: LinearResidualModel (ordinary least    *)
(* squares through the normal equations) and Forecaster (fit_residuals,    *)
(* predict, simulate).                                                     *)
(*                                                                         *)
(* Floating point numbers are modelled as exact rationals [n, d] with      *)
(* d > 0, and NaN as [n |-> 0, d |-> 0].  A numpy array that matters for   *)
(* its shape is modelled as [shape, data] with data the flattened values.  *)
(***************************************************************************)
EXTENDS Integers, Sequences, FiniteSets, TLC

\* ---------------------------------------------------------------- bounds
MaxHorizon == 2      \* far_out ranges over -1..MaxHorizon
MaxSims == 2         \* num_simulations ranges over -1..MaxSims
MaxLen == 2          \* longest far_out sequence given to predict
RngPeriod == 2       \* period of the modelled pseudo-random stream

VARIABLES
    mean_residual_model,   \* Forecaster.mean_residual_model
    std_residual_model,    \* Forecaster.std_residual_model
    all_data,              \* mp.all_data: rows [group, t, obs_compare]
    rng,                   \* position in numpy's global random stream
    call                   \* the last call made: its arguments and its outcome

vars == <<mean_residual_model, std_residual_model, all_data, rng, call>>

\* ------------------------------------------------------- float arithmetic
Abs(x) == IF x < 0 THEN -x ELSE x

RECURSIVE GCD(_, _)
GCD(a, b) == IF b = 0 THEN a ELSE GCD(b, a % b)

NaN == [n |-> 0, d |-> 0]
IsNaN(x) == x.d = 0

Norm(n, d) ==
    IF d = 0 THEN NaN
    ELSE LET g == GCD(Abs(n), Abs(d))
             s == IF d < 0 THEN -1 ELSE 1
         IN  [n |-> s * (n \div g), d |-> s * (d \div g)]

R(i) == [n |-> i, d |-> 1]
RAdd(a, b) == IF IsNaN(a) \/ IsNaN(b) THEN NaN ELSE Norm(a.n * b.d + b.n * a.d, a.d * b.d)
RMul(a, b) == IF IsNaN(a) \/ IsNaN(b) THEN NaN ELSE Norm(a.n * b.n, a.d * b.d)
RNeg(a) == IF IsNaN(a) THEN NaN ELSE [n |-> -a.n, d |-> a.d]
\* a > b as floats compare: FALSE whenever either side is NaN
RGt(a, b) == ~IsNaN(a) /\ ~IsNaN(b) /\ a.n * b.d > b.n * a.d

\* Python's max(x, y): the first argument unless the second is greater
PyMax(x, y) == IF RGt(y, x) THEN y ELSE x

\* numpy arrays kept with their shape; a cell of a table is a float or an array
IsArray(c) == "shape" \in DOMAIN c
CMul(c, r) ==
    IF IsArray(c)
    THEN [shape |-> c.shape, data |-> [i \in DOMAIN c.data |-> RMul(c.data[i], r)]]
    ELSE RMul(c, r)
CAdd(a, b) ==
    CASE IsArray(a) /\ IsArray(b) ->
            [shape |-> a.shape, data |-> [i \in DOMAIN a.data |-> RAdd(a.data[i], b.data[i])]]
      [] IsArray(a) /\ ~IsArray(b) ->
            [shape |-> a.shape, data |-> [i \in DOMAIN a.data |-> RAdd(a.data[i], b)]]
      [] ~IsArray(a) /\ IsArray(b) ->
            [shape |-> b.shape, data |-> [i \in DOMAIN b.data |-> RAdd(a, b.data[i])]]
      [] OTHER -> RAdd(a, b)

\* ------------------------------------------------------------ matrices
\* a matrix is a sequence of rows, each a sequence of floats
Transpose(M, ncols) == [j \in 1..ncols |-> [i \in 1..Len(M) |-> M[i][j]]]

RECURSIVE RSum(_, _)
RSum(f, k) == IF k = 0 THEN R(0) ELSE RAdd(RSum(f, k - 1), f[k])

\* A.dot(B), A of shape (r, m) and B of shape (m, c)
MatMul(A, B, m, c) ==
    [i \in 1..Len(A) |-> [j \in 1..c |->
        RSum([k \in 1..m |-> RMul(A[i][k], B[k][j])], m)]]

Minor(M, r, c) ==
    LET n == Len(M)
    IN  [i \in 1..(n - 1) |-> [j \in 1..(n - 1) |->
            M[IF i < r THEN i ELSE i + 1][IF j < c THEN j ELSE j + 1]]]

RECURSIVE Det(_)
Det(M) ==
    IF Len(M) = 1 THEN M[1][1]
    ELSE RSum([j \in 1..Len(M) |->
                 RMul(IF j % 2 = 1 THEN M[1][j] ELSE RNeg(M[1][j]), Det(Minor(M, 1, j)))],
              Len(M))

Singular(M) == Det(M) = R(0)

\* np.linalg.inv of a non-singular square matrix: adjugate over determinant
Inv(M) ==
    LET n == Len(M)
        det == Det(M)
        cof(i, j) ==
            LET m == IF n = 1 THEN R(1) ELSE Det(Minor(M, i, j))
            IN  IF (i + j) % 2 = 0 THEN m ELSE RNeg(m)
    IN  [i \in 1..n |-> [j \in 1..n |->
            RMul(cof(j, i), [n |-> det.d, d |-> det.n])]]

\* ------------------------------------------------- LinearResidualModel
None == [cls |-> "NoneType"]
IsNone(m) == m.cls = "NoneType"

\* ResidualModel.__init__: the coefficients start unset (coef = None, here <<>>)
NewLinearResidualModel(data, outcome, covariates) ==
    [data |-> data, cls |-> "LinearResidualModel", outcome |-> outcome,
     covariates |-> covariates, coef |-> <<>>]

\* np.asarray(df[['intercept'] + covariates]) with df['intercept'] = 1
DesignMatrix(rows, covariates) ==
    [i \in 1..Len(rows) |->
        <<R(1)>> \o [k \in 1..Len(covariates) |-> R(rows[i][covariates[k]])]]

\* LinearResidualModel.fit: works on a copy of self.data; raises LinAlgError
\* when pred.T.dot(pred) has no inverse, and then leaves coef unset
Fit(m) ==
    LET p    == Len(m.covariates) + 1
        pred == DesignMatrix(m.data, m.covariates)
        out  == [i \in 1..Len(m.data) |-> <<R(m.data[i][m.outcome])>>]
        predT == Transpose(pred, p)
        gram == MatMul(predT, pred, Len(m.data), p)
    IN  IF Singular(gram)
        THEN [raised |-> TRUE, model |-> m]
        ELSE [raised |-> FALSE,
              model  |-> [m EXCEPT !.coef =
                  MatMul(MatMul(Inv(gram), predT, p, Len(m.data)), out, Len(m.data), 1)]]

\* one row of pred.dot(self.coef): intercept and covariate cells times coef
RECURSIVE DotRow(_, _, _)
DotRow(cells, coef, k) ==
    IF k = 1 THEN CMul(cells[1], coef[1][1])
    ELSE CAdd(DotRow(cells, coef, k - 1), CMul(cells[k], coef[k][1]))

\* df[c] = v: the row with column c set
WithColumn(row, c, v) == [x \in DOMAIN row \cup {c} |-> IF x = c THEN v ELSE row[x]]

\* LinearResidualModel.predict on one row: the row gains the intercept column
\* (df['intercept'] = 1 writes into the caller's table) and yields one value
LinearPredict(m, row) ==
    LET df == WithColumn(row, "intercept", R(1))
    IN  [row |-> df,
         value |-> DotRow(<<df.intercept>> \o
                          [k \in 1..Len(m.covariates) |-> df[m.covariates[k]]],
                          m.coef, Len(m.coef))]

\* ------------------------------------------------------------ Forecaster
\* a product that loops over its second argument first
ProductInnerFirst(a, b) ==
    [k \in 1..(Len(a) * Len(b)) |->
        <<a[((k - 1) % Len(a)) + 1], b[((k - 1) \div Len(a)) + 1]>>]

\* itertools.product(far_out, num_data): the first sequence is the outer loop
Product(a, b) ==
    [k \in 1..(Len(a) * Len(b)) |->
        <<a[((k - 1) \div Len(b)) + 1], b[((k - 1) % Len(b)) + 1]>>]

\* what calling .predict on a residual model attribute raises, if anything
PredictError(m) ==
    IF IsNone(m) THEN "AttributeError"
    ELSE IF m.coef = <<>> THEN "TypeError"
    ELSE "none"

\* one row of the grid Forecaster.predict returns
GridRow(mean, std, pair) ==
    LET pm == LinearPredict(mean, [far_out |-> pair[1], num_data |-> pair[2]])
        ps == LinearPredict(std, WithColumn(pm.row, "residual_mean", pm.value))
    IN  WithColumn(ps.row, "residual_std", ps.value)

\* a predict whose regressions write the intercept column into their own
\* training table instead of the table they are given
ForecasterPredictWritesTraining(mean, std, far_out, num_data) ==
    LET mark(m) == IF IsNone(m) THEN m
                   ELSE [m EXCEPT !.data = [i \in 1..Len(m.data) |->
                                               WithColumn(m.data[i], "intercept", 1)]]
    IN  IF PredictError(mean) # "none"
        THEN [mean |-> mean, std |-> std, status |-> PredictError(mean), grid |-> <<>>]
        ELSE IF PredictError(std) # "none"
        THEN [mean |-> mark(mean), std |-> std, status |-> PredictError(std), grid |-> <<>>]
        ELSE LET rows == Product(far_out, num_data)
             IN  [mean |-> mark(mean), std |-> mark(std), status |-> "returned",
                  grid |-> [k \in 1..Len(rows) |-> GridRow(mean, std, rows[k])]]

\* Forecaster.predict: the grid of all combinations with both residual
\* columns, and the two model attributes as the call leaves them
ForecasterPredict(mean, std, far_out, num_data) ==
    IF PredictError(mean) # "none"
    THEN [mean |-> mean, std |-> std, status |-> PredictError(mean), grid |-> <<>>]
    ELSE IF PredictError(std) # "none"
    THEN [mean |-> mean, std |-> std, status |-> PredictError(std), grid |-> <<>>]
    ELSE LET rows == Product(far_out, num_data)
         IN  [mean |-> mean, std |-> std, status |-> "returned",
              grid |-> [k \in 1..Len(rows) |-> GridRow(mean, std, rows[k])]]

\* a fit_residuals that builds both regressions before it looks at the type
FitResidualsConstructsFirst(mean, std, residual_data, mean_col, std_col, residual_covariates, residual_model_type) ==
    LET m0 == NewLinearResidualModel(residual_data, mean_col, residual_covariates)
        s0 == NewLinearResidualModel(residual_data, std_col, residual_covariates)
        fm == Fit(m0)
        fs == Fit(s0)
    IN  IF residual_model_type # "linear"
        THEN [mean |-> m0, std |-> s0, status |-> "ValueError"]
        ELSE IF fm.raised
        THEN [mean |-> m0, std |-> s0, status |-> "LinAlgError"]
        ELSE IF fs.raised
        THEN [mean |-> fm.model, std |-> s0, status |-> "LinAlgError"]
        ELSE [mean |-> fm.model, std |-> fs.model, status |-> "returned"]

\* Forecaster.fit_residuals as a function of the two model attributes before
\* the call: the attributes after it and how the call ended
FitResidualsOutcome(mean, std, residual_data, mean_col, std_col, residual_covariates, residual_model_type) ==
    IF residual_model_type = "linear"
    THEN LET m0 == NewLinearResidualModel(residual_data, mean_col, residual_covariates)
             s0 == NewLinearResidualModel(residual_data, std_col, residual_covariates)
             fm == Fit(m0)
             fs == Fit(s0)
         IN  IF fm.raised
             THEN [mean |-> m0, std |-> s0, status |-> "LinAlgError"]
             ELSE IF fs.raised
             THEN [mean |-> fm.model, std |-> s0, status |-> "LinAlgError"]
             ELSE [mean |-> fm.model, std |-> fs.model, status |-> "returned"]
    ELSE [mean |-> mean, std |-> std, status |-> "ValueError"]

\* ------------------------------------------------- external collaborators
\* mp.predict(times, predict_space, predict_group): a deterministic mean
\* trajectory, one number per requested time
MpPredict(times, group) == [k \in 1..Len(times) |-> RMul(R(10), times[k])]

\* curvefit.utils.data_translator: elementwise map from comparison space to fit space
DataTranslator(values) == [k \in 1..Len(values) |-> RMul(R(2), values[k])]

\* the k-th standard normal variate of numpy's global stream
Z(pos) == R((pos % RngPeriod) - 1)

\* --------------------------------------------------- Forecaster.simulate
Columns == <<"t", "group", "obs", "obs_compare">>
IsNull(row, c) == IF c = "group" THEN FALSE ELSE IsNaN(row[c])

RECURSIVE SeqMax(_, _)
SeqMax(s, k) ==
    IF k = 0 THEN NaN
    ELSE IF k = 1 THEN s[1]
    ELSE PyMax(SeqMax(s, k - 1), s[k])

RECURSIVE CountNonNull(_, _, _)
CountNonNull(rows, c, k) ==
    IF k = 0 THEN 0
    ELSE CountNonNull(rows, c, k - 1) + (IF IsNull(rows[k], c) THEN 0 ELSE 1)

\* DataFrame.count(): a Series holding one count of non-null cells per column
DataFrameCount(rows) ==
    [shape |-> <<Len(Columns)>>,
     data |-> [c \in 1..Len(Columns) |-> R(CountNonNull(rows, Columns[c], Len(rows)))]]

\* np.array([x]) of a one-dimensional x, and iteration over its first axis
ArrayOfOne(x) == [shape |-> <<1>> \o x.shape, data |-> x.data]
IterateRows(a) == << [shape |-> Tail(a.shape), data |-> a.data] >>

\* std_residual.apply(lambda x: max(x, epsilon)) on one cell: comparing an
\* array of several elements with a float has no truth value
FloorRaises(x) == IsArray(x) /\ Len(x.data) > 1
FloorAsCeiling(x, epsilon) == IF RGt(x, epsilon) THEN epsilon ELSE x
Floor(x, epsilon) == PyMax(x, epsilon)

Flatten(M, ncols) == [k \in 1..(Len(M) * ncols) |-> M[((k - 1) \div ncols) + 1][((k - 1) % ncols) + 1]]
Repeat(v, n) == [k \in 1..n |-> v]

\* the locals of simulate up to the first statement that can raise
SimulateLocals(data_all, far_out, group) ==
    LET data == SelectSeq(data_all, LAMBDA r : r.group = group)
        obs_times == [i \in 1..Len(data) |-> data[i].t]
        max_t == SeqMax(obs_times, Len(obs_times))
        num_obs == DataFrameCount(SelectSeq(data, LAMBDA r : ~IsNull(r, "obs_compare")))
        num_out == [k \in 1..(IF far_out > 0 THEN far_out ELSE 0) |-> R(k)]
        forecast_times == [k \in 1..Len(num_out) |-> RAdd(max_t, num_out[k])]
    IN  [data |-> data, max_t |-> max_t, num_obs |-> num_obs, num_out |-> num_out,
         forecast_times |-> forecast_times,
         observations |-> [i \in 1..Len(data) |-> data[i].obs_compare],
         all_times |-> obs_times \o forecast_times,
         mean_pred |-> MpPredict(forecast_times, group),
         predict_far_out |-> num_out,
         predict_num_data |-> ArrayOfOne(num_obs)]

\* the fields of an outcome that stay empty when simulate raises before sampling
NotSampled ==
    [scale |-> <<>>, draws |-> 0, new_observations |-> <<>>, simulated_flag |-> <<>>,
     fit_space_new_observations |-> <<>>, dfs |-> <<>>]

\* Forecaster.simulate: how the call ends, its locals at that point, what it
\* returns and how many variates it drew from the global stream
SimulateOutcome(mean, std, data_all, pos, far_out, num_simulations, group, epsilon) ==
    LET l == SimulateLocals(data_all, far_out, group)
        residuals == ForecasterPredict(mean, std, l.predict_far_out,
                                       IterateRows(l.predict_num_data))
        h == Len(l.num_out)
        after == [mean |-> residuals.mean, std |-> residuals.std]
    IN  IF residuals.status # "returned"
        THEN l @@ NotSampled @@ after @@ [status |-> residuals.status, grid |-> <<>>]
        ELSE IF \E k \in 1..h : FloorRaises(residuals.grid[k].residual_std)
        THEN l @@ NotSampled @@ after @@ [status |-> "ValueError", grid |-> residuals.grid]
        ELSE LET mean_residual == [k \in 1..h |-> residuals.grid[k].residual_mean]
                 std_residual == [k \in 1..h |-> Floor(residuals.grid[k].residual_std, epsilon)]
             IN  IF num_simulations < 0 \/ far_out < 0
                 THEN l @@ [NotSampled EXCEPT !.scale = std_residual] @@ after
                        @@ [status |-> "ValueError", grid |-> residuals.grid]
                 ELSE LET error == [i \in 1..num_simulations |-> [k \in 1..h |->
                              RAdd(mean_residual[k],
                                   RMul(std_residual[k], Z(pos + (i - 1) * h + (k - 1))))]]
                          forecast_data == [i \in 1..num_simulations |-> [k \in 1..h |->
                              RAdd(l.mean_pred[k], RMul(l.mean_pred[k], error[i][k]))]]
                          new_observations == l.observations \o Flatten(forecast_data, h)
                          simulated_flag == Repeat(0, Len(l.observations))
                                            \o Repeat(1, Len(forecast_data))
                      IN  l @@ after @@
                               [status |-> IF num_simulations >= 1 THEN "TypeError"
                                           ELSE "returned",
                                grid |-> residuals.grid,
                                scale |-> std_residual,
                                draws |-> num_simulations * h,
                                new_observations |-> new_observations,
                                simulated_flag |-> simulated_flag,
                                fit_space_new_observations |-> DataTranslator(new_observations),
                                dfs |-> <<>>]

\* ---------------------------------------------------------------- inputs
\* residual training tables (rows of far_out, num_data, residual_mean, residual_std)
Row(f, n, m, s) == [far_out |-> f, num_data |-> n, residual_std |-> s, residual_mean |-> m]
ResidualTables ==
    { <<Row(1, 1, 0, 1), Row(2, 2, 1, 0)>>,
      <<Row(2, 1, 1, 0), Row(3, 1, 0, 1)>>,
      <<Row(1, 2, 1, 1)>> }
CovariateLists == { <<"far_out">>, <<"num_data">> }
ModelTypes == { "linear", "unsupported" }

RECURSIVE SeqsOfLen(_, _)
SeqsOfLen(S, n) ==
    IF n = 0 THEN { <<>> }
    ELSE { Append(s, x) : s \in SeqsOfLen(S, n - 1), x \in S }
NumberSeqs == UNION { SeqsOfLen({1, 2}, n) : n \in 1..MaxLen }
AmountSeqs == { <<1>>, <<1, 1>>, <<2, 1>> }
ToFloats(s) == [i \in 1..Len(s) |-> R(s[i])]

\* the model pipeline's historical data.  In the first table group A has a
\* later row whose observation is missing and group B is fully observed; in
\* the second the missing observations come first or in the middle.  Group Z
\* has no row in either.
Obs(g, t, v) == [group |-> g, t |-> R(t), obs_compare |-> v,
                 obs |-> IF IsNaN(v) THEN NaN ELSE RMul(R(2), v)]
AllData ==
    << Obs("A", 1, R(5)), Obs("B", 1, R(4)), Obs("A", 2, R(7)),
       Obs("B", 2, R(6)), Obs("A", 3, NaN) >>
AllDataLate ==
    << Obs("A", 1, NaN), Obs("A", 2, R(5)), Obs("B", 1, R(4)),
       Obs("B", 2, NaN), Obs("B", 3, R(8)) >>
Groups == { "A", "B", "Z" }
\* epsilon=1e-3, the default of simulate
Epsilons == { [n |-> 1, d |-> 1000] }

\* ---------------------------------------------------------------- actions
Init ==
    /\ mean_residual_model = None
    /\ std_residual_model = None
    /\ all_data \in { AllData, AllDataLate }
    /\ rng \in 0..(RngPeriod - 1)
    /\ call = [op |-> "__init__"]

FitResiduals(residual_data, residual_covariates, residual_model_type) ==
    \E o \in { FitResidualsOutcome(mean_residual_model, std_residual_model, residual_data,
                                    "residual_mean", "residual_std",
                                    residual_covariates, residual_model_type) } :
        /\ mean_residual_model' = o.mean
        /\ std_residual_model' = o.std
        /\ call' = [status |-> o.status,
                    residual_data |-> residual_data,
                    residual_covariates |-> residual_covariates,
                    residual_model_type |-> residual_model_type,
                    op |-> "fit_residuals"]
        /\ UNCHANGED <<all_data, rng>>

Predict(far_out, num_data) ==
    \E o \in { ForecasterPredict(mean_residual_model, std_residual_model,
                                  ToFloats(far_out), ToFloats(num_data)) } :
        /\ mean_residual_model' = o.mean
        /\ std_residual_model' = o.std
        /\ call' = [far_out |-> far_out, num_data |-> num_data,
                    status |-> o.status, grid |-> o.grid, op |-> "predict"]
        /\ UNCHANGED <<all_data, rng>>

Simulate(far_out, num_simulations, group, epsilon) ==
    \E o \in { SimulateOutcome(mean_residual_model, std_residual_model, all_data, rng,
                                far_out, num_simulations, group, epsilon) } :
        /\ call' = [out |-> o, far_out |-> far_out, status |-> o.status,
                    group |-> group, epsilon |-> epsilon,
                    num_simulations |-> num_simulations, op |-> "simulate"]
        /\ mean_residual_model' = o.mean
        /\ std_residual_model' = o.std
        /\ rng' = (rng + o.draws) % RngPeriod
        /\ UNCHANGED all_data

Next ==
    \/ \E d \in ResidualTables, c \in CovariateLists, t \in ModelTypes : FitResiduals(d, c, t)
    \/ \E f \in NumberSeqs, n \in AmountSeqs : Predict(f, n)
    \/ \E h \in -1..MaxHorizon, n \in -1..MaxSims, g \in Groups, e \in Epsilons :
          Simulate(h, n, g, e)

Spec == Init /\ [][Next]_vars

\* ------------------------------------------------ notions the claims use
\* Forecaster.get_max_t_per_group / get_num_obs_per_group, for one group:
\* taken over the rows whose comparison-space observation is not missing
ObservedRows(g) ==
    SelectSeq(all_data, LAMBDA r : r.group = g /\ ~IsNull(r, "obs_compare"))
MaxObservedTime(g) ==
    LET rows == ObservedRows(g)
    IN  SeqMax([i \in 1..Len(rows) |-> rows[i].t], Len(rows))
NumObserved(g) == Len(ObservedRows(g))

\* a >= b on floats
RGe(a, b) == ~IsNaN(a) /\ ~IsNaN(b) /\ a.n * b.d >= b.n * a.d

HistoricalRows(g) == SelectSeq(all_data, LAMBDA r : r.group = g)
Fitted ==
    /\ PredictError(mean_residual_model) = "none"
    /\ PredictError(std_residual_model) = "none"

\* ---------------------------------------------------------------- claims

\* C1: for a group with at least one historical row, H >= 1 and N >= 1,
\* simulate on a fitted Forecaster returns exactly N trajectory tables whose
\* time, comparison-space, fit-space and flag columns all have
\* len(historical rows) + H entries, the last H flagged 1 and the rest 0.
C1_SimulateReturnsTables ==
    (/\ call.op = "simulate"
     /\ Fitted
     /\ Len(HistoricalRows(call.group)) >= 1
     /\ call.far_out >= 1
     /\ call.num_simulations >= 1)
    => LET n == Len(HistoricalRows(call.group)) + call.far_out
       IN  /\ call.status = "returned"
           /\ Len(call.out.dfs) = call.num_simulations
           /\ Len(call.out.all_times) = n
           /\ Len(call.out.new_observations) = n
           /\ Len(call.out.fit_space_new_observations) = n
           /\ call.out.simulated_flag =
                 Repeat(0, n - call.far_out) \o Repeat(1, call.far_out)

\* C2: predict on a fitted Forecaster returns len(distances) * len(amounts)
\* rows in Cartesian-product order, the first argument as the outer loop,
\* with no sorting and no deduplication.
C2_PredictGridOrder ==
    (call.op = "predict" /\ Fitted)
    => /\ call.status = "returned"
       /\ Len(call.grid) = Len(call.far_out) * Len(call.num_data)
       /\ \A i \in 1..Len(call.far_out) : \A j \in 1..Len(call.num_data) :
             LET row == call.grid[(i - 1) * Len(call.num_data) + j]
             IN  /\ row.far_out = R(call.far_out[i])
                 /\ row.num_data = R(call.num_data[j])

C2_Witness ==
    /\ call.op = "predict"
    /\ call.status = "returned"
    /\ call.far_out = <<2, 1>>
    /\ call.num_data = <<1, 1>>

\* C3: fit_residuals with a model type other than 'linear' raises ValueError
\* and leaves mean_residual_model and std_residual_model as they were (unset
\* on a fresh Forecaster, the fitted models on a fitted one).
C3_UnknownTypeRaisesFirst ==
    [][(call'.op = "fit_residuals" /\ call'.residual_model_type # "linear")
       => /\ call'.status = "ValueError"
          /\ mean_residual_model' = mean_residual_model
          /\ std_residual_model' = std_residual_model]_vars

C3_Witness ==
    /\ call.op = "fit_residuals"
    /\ call.residual_model_type = "unsupported"
    /\ call.status = "ValueError"
    /\ Fitted

\* C4: the scale simulate hands to the normal sampling is, for every forecast
\* offset, the larger of the predicted residual_std and epsilon, so it is
\* never below epsilon, also when the prediction is zero or negative.
C4_ScaleNeverBelowFloor ==
    call.op = "simulate"
    => /\ Len(call.out.scale) \in {0, Len(call.out.num_out)}
       /\ call.out.draws > 0 => Len(call.out.scale) = Len(call.out.num_out)
       /\ \A k \in 1..Len(call.out.scale) :
             LET predicted == call.out.grid[k].residual_std
                 used == call.out.scale[k]
             IN  /\ used \in {predicted, call.epsilon}
                 /\ RGe(used, predicted)
                 /\ RGe(used, call.epsilon)

C4_Witness ==
    /\ call.op = "simulate"
    /\ call.out.draws > 0
    /\ \E k \in 1..Len(call.out.scale) : RGt(R(0), call.out.grid[k].residual_std)
    /\ \E k \in 1..Len(call.out.scale) : call.out.grid[k].residual_std = R(0)

\* C5: simulate with far_out <= 0 or num_simulations <= 0 fails with a
\* configuration error (ValueError, as fit_residuals raises for a bad
\* configuration), draws nothing from the random stream and returns nothing.
C5_NonPositiveRejected ==
    (/\ call.op = "simulate"
     /\ Fitted
     /\ call.far_out <= 0 \/ call.num_simulations <= 0)
    => /\ call.status = "ValueError"
       /\ call.out.draws = 0

\* C6: simulate for a group with no row in the historical data fails with a
\* not-found error and never returns.
C6_AbsentGroupNotFound ==
    (/\ call.op = "simulate"
     /\ Fitted
     /\ Len(HistoricalRows(call.group)) = 0)
    => call.status \in {"NotFoundError", "KeyError", "LookupError"}

\* C7: a fit_residuals that fails while fitting (singular design matrix)
\* leaves mean_residual_model and std_residual_model as they were before the
\* call.
C7_FailedFitLeavesModels ==
    [][(call'.op = "fit_residuals" /\ call'.status = "LinAlgError")
       => /\ mean_residual_model' = mean_residual_model
          /\ std_residual_model' = std_residual_model]_vars

\* C8: the forecast times simulate asks the mean forecast for are
\* max_observed_time + k for k = 1..far_out, max_observed_time being the
\* largest time among the group's rows with a non-missing observation.
C8_ForecastStartsAfterLastObserved ==
    (/\ call.op = "simulate"
     /\ NumObserved(call.group) >= 1
     /\ call.far_out >= 1)
    => call.out.forecast_times =
          [k \in 1..call.far_out |-> RAdd(MaxObservedTime(call.group), R(k))]

\* C9: simulate asks predict for distances 1..far_out and the one-element
\* amounts sequence [num_observed], num_observed being one number, the count
\* of the group's rows with a non-missing observation; the grid has far_out
\* rows, each with num_data = num_observed.
C9_GridForOneAmount ==
    (call.op = "simulate" /\ Fitted /\ call.far_out >= 1)
    => /\ call.out.predict_far_out = [k \in 1..call.far_out |-> R(k)]
       /\ call.out.predict_num_data =
             [shape |-> <<1>>, data |-> <<R(NumObserved(call.group))>>]
       /\ Len(call.out.grid) = call.far_out
       /\ \A k \in 1..Len(call.out.grid) :
             call.out.grid[k].num_data = R(NumObserved(call.group))

\* C10: predict and simulate leave both fitted regressions (coefficients and
\* training table) unchanged, two successive predict calls with the same
\* arguments return the same grid, and a successful fit_residuals stores the
\* training table as it was given.
C10_FittedRegressionImmutable ==
    [][/\ call'.op \in {"predict", "simulate"}
          => /\ mean_residual_model' = mean_residual_model
             /\ std_residual_model' = std_residual_model
       /\ (/\ call.op = "predict" /\ call'.op = "predict"
           /\ call'.far_out = call.far_out /\ call'.num_data = call.num_data)
          => call'.grid = call.grid /\ call'.status = call.status
       /\ (call'.op = "fit_residuals" /\ call'.status = "returned")
          => /\ mean_residual_model'.data = call'.residual_data
             /\ std_residual_model'.data = call'.residual_data]_vars

C10_Witness ==
    /\ call.op = "simulate"
    /\ call.out.draws > 0
    /\ Fitted

====
